---- MODULE Spec2Model ----
(***************************************************************************)
(* The swingset-runner driver (packages/swingset-runner/src/main.js): the  *)
(* crank stepper, runBlock, runBatch, runBenchmark, commandRun and the     *)
(* command dispatch of main(), over an Engine (controller) and a           *)
(* Checkpoint Store that are external collaborators.                       *)
(*                                                                         *)
(* Every async function of the driver is a frame of a task; tk[t].pc is    *)
(* the source line the task stands at and tk[t].stack the lines its        *)
(* callers resume at.  A task runs from one await to the next without      *)
(* interruption (JavaScript run-to-completion): the labels in SyncLabels   *)
(* are positions inside such a segment, and no other task, no Engine       *)
(* completion and no operator command happens while a task stands at one.  *)
(***************************************************************************)
EXTENDS Integers, Sequences, FiniteSets, TLC

\* ---- bounds of the model ------------------------------------------------
MaxBlockSize == 2
MaxBatchSize == 2
MaxWork == 2
MaxPrior == 1
MaxRounds == 1
MaxBenchRounds == 3
MaxRoundWork == 1
MaxTasks == 2
MaxCommands == 2
MaxArg == 1

\* No run of the model with a positive block size needs more blocks than this;
\* it caps the block counter of a run that never ends (block size 0).
MaxBlocks == (MaxWork + MaxBenchRounds * MaxRoundWork
                      + MaxCommands * MaxRoundWork)
             + MaxBenchRounds + MaxCommands + 3

VARIABLES
  command,          \* argv: CMD
  blockSize,        \* --blocksize N
  batchSize,        \* --batchsize N
  blockMode,        \* --blockmode
  benchmarkRounds,  \* --benchmark N
  doDumps,          \* --dump
  doAudits,         \* --audit
  logging,          \* --logtimes, --logmem or --logdisk given
  logStats,         \* --logstats
  storeState,       \* "unopened", "open", "closed"
  stored,           \* store.storage.get('crankNumber'): the working value
  persisted,        \* the crank counter as of the last commit
  work,             \* cranks pending in the Engine's run queue
  crankNumber,      \* main.js:371
  blockNumber,      \* main.js:351
  statLogger,       \* "none" (null), "open", "closed"
  cli,              \* the repl: "off", "on", "exited"
  cmds,             \* operator commands entered so far
  roundOutcome,     \* what the Engine makes of a runBenchmarkRound call
  stats,            \* controller.getStats(): cranks the Engine has run
  ev,               \* what the driver has done to the Engine and the store
  rows,             \* the rows given to statLogger.log
  tk                \* the tasks: main() is task 0, shell commands are 1..MaxTasks

cfgVars == <<command, blockSize, batchSize, blockMode, benchmarkRounds,
             doDumps, doAudits, logging, logStats, roundOutcome>>
storeVars == <<storeState, stored, persisted>>
obsVars == <<ev, rows>>
vars == <<cfgVars, storeVars, work, stats, crankNumber, blockNumber, statLogger,
          cli, cmds, obsVars, tk>>

Main == 0
Tasks == 0..MaxTasks
ShellTasks == 1..MaxTasks
Booleans == {TRUE, FALSE}

\* ---- frames -------------------------------------------------------------
NoBlock == [n |-> 0, commit |-> FALSE, ret |-> 0, issued |-> 0, commits |-> 0,
            rows |-> 0, preP |-> 0, done |-> FALSE]
NoBatch == [limit |-> 0, commit |-> FALSE, total |-> 0, blocks |-> 0,
            preW |-> 0, done |-> FALSE]
NoErr == [what |-> "none", steps |-> 0, commits |-> 0, blocks |-> 0]
NoBench == [rounds |-> 0, enq |-> 0, statuses |-> <<>>, cranks |-> 0,
            stats |-> 0, done |-> FALSE]

Frame0 ==
  [pc |-> "idle", stack |-> <<>>, ret |-> 0,
   \* runBlock
   requestedSteps |-> 0, actualSteps |-> 0, doCommit |-> FALSE, stepped |-> 0,
   \* runBatch
   stepLimit |-> 0, totalSteps |-> 0, steps |-> 0, runAll |-> FALSE,
   batchDoCommit |-> FALSE,
   \* runBenchmark
   rounds |-> 0, i |-> 0, benchSteps |-> 0, cranksPre |-> 0, statsPre |-> 0,
   \* commandRun
   runInBlockMode |-> FALSE, crSteps |-> 0,
   \* observation of the running and of the last completed block and batch
   cur |-> NoBlock, blk |-> NoBlock, curBat |-> NoBatch, bat |-> NoBatch,
   \* observation of the running or last completed benchmark
   ben |-> NoBench,
   \* the failure that ended the task, and what had been done when it did
   err |-> NoErr]

\* Positions inside a synchronous segment.
SyncLabels == {"Configuring", "StoreOpen", "Dispatch", "main455",
               "cr574", "cr594", "bl506", "bl525", "rb474"}
\* Positions where the task awaits the Engine's step.
AwaitingStep == {"bl509", "st382", "sh445"}

Busy == \E t \in Tasks : tk[t].pc \in SyncLabels
InFlight == {t \in Tasks : tk[t].pc \in AwaitingStep}

Return(f, v) == [f EXCEPT !.pc = Head(f.stack), !.stack = Tail(f.stack), !.ret = v]
Throw(f) == [f EXCEPT !.pc = "Thrown"]

\* ---- the Engine and the Checkpoint Store (external collaborators) --------
\* step(): one crank when work is pending, reporting 1; 0 when the queue is empty.
EngineStep(w) == IF w > 0 THEN 1 ELSE 0

\* store.commit(): everything written since the last commit becomes durable.
Committed(s) == s

\* roundResult.status(): the call queued for a round is resolved once the
\* Engine has run the cranks it gave rise to, the last of the run queue.
RoundStatus(outcome, w) == IF w > 0 THEN "pending" ELSE outcome

\* printBenchmarkStats: a delta over the rounds of the benchmark.
PerRound(delta, rounds) == delta \div rounds

\* ---- what the driver has done ----------------------------------------------
\* The calls of controller.step(), store.commit() and store.close() made so
\* far; afterClose counts the steps and commits made on a closed store;
\* commitCmds and benchCmds count the operator's commit and benchmark commands;
\* unchecked counts the cranks executed, with dumping or auditing enabled,
\* since the last dump and audit; dumps counts the dumps written, lastTag is
\* the crank number in the name of the last one, and overwrites counts the
\* dumps written under a name an earlier dump of this process had.
NoEvents == [steps |-> 0, commits |-> 0, closes |-> 0, afterClose |-> 0,
             commitCmds |-> 0, benchCmds |-> 0, unchecked |-> 0,
             dumps |-> 0, lastTag |-> -1, overwrites |-> 0]

Stepping(e) ==
  [e EXCEPT !.steps = @ + 1,
            !.afterClose = IF e.closes > 0 THEN @ + 1 ELSE @]
Committing(e) ==
  [e EXCEPT !.commits = @ + 1,
            !.afterClose = IF e.closes > 0 THEN @ + 1 ELSE @]
Closing(e) == [e EXCEPT !.closes = @ + 1]
Cranked(e, n) ==
  [e EXCEPT !.unchecked = IF doDumps \/ doAudits THEN @ + n ELSE @]
Checked(e) == [e EXCEPT !.unchecked = 0]
Dumped(e, tag) ==
  [e EXCEPT !.dumps = @ + 1, !.lastTag = tag,
            !.overwrites = IF e.dumps > 0 /\ tag <= e.lastTag THEN @ + 1 ELSE @]

\* The failure `what` of a dump or an audit, met by frame f.
Failure(f, what, e) ==
  [f EXCEPT !.err = [what |-> what, steps |-> e.steps, commits |-> e.commits,
                     blocks |-> f.curBat.blocks]]

\* ---- the driver's conditions ----------------------------------------------
InitialCrankNumber == 0
InitialBlockNumber == 0

HasStatLogger(l) == l

\* main.js:48-52: a flag that asks for statistics to be logged was given.
StatsLoggingEnabled == logging \/ logStats

\* (a loop test off by one)
LoopGuardInclusive(requestedSteps) == requestedSteps >= 0

\* main.js:506
LoopGuard(requestedSteps) == requestedSteps > 0

\* (a block that goes on stepping an Engine without work)
OutOfWorkNever(stepped) == FALSE

\* main.js:510
OutOfWork(stepped) == stepped < 1

\* (a block that commits whatever it is asked)
CommitAlways(doCommit) == TRUE

\* (a block that never commits)
CommitNever(doCommit) == FALSE

\* main.js:525
CommitAfterLoop(doCommit) == doCommit

\* main.js:533
NextBlockNumber(b) == b + 1

\* (the dump named by the crank number before the crank is counted)
DumpTagBeforeCount(cn, stepped) == cn

\* main.js:513 and 464: the crank number in the name of a crank's dump.
DumpTag(cn, stepped) == cn + stepped

\* main.js:563
RunAll(stepLimit) == stepLimit = 0

\* (the batch counts the block size, not the steps the block made)
BatchTotalByBlockSize(totalSteps, steps) == totalSteps + blockSize

\* main.js:567
BatchTotal(totalSteps, steps) == totalSteps + steps

\* (a batch that goes on while the last block made any step)
BatchContinueWhileStepping(runAll, stepLimit, steps, bs) ==
  (runAll \/ stepLimit > 0) /\ steps > 0

\* (a batch that does not look at the last block's count)
BatchContinueBlind(runAll, stepLimit, steps, bs) ==
  runAll \/ stepLimit > 0

\* (a batch that stops as soon as the Engine's queue is empty)
BatchContinueWhileWork(runAll, stepLimit, steps, bs) ==
  (runAll \/ stepLimit > 0) /\ steps >= bs /\ work > 0

\* (a batch that does not look at its step limit)
BatchContinueNoLimit(runAll, stepLimit, steps, bs) ==
  steps >= bs

\* (a batch that goes on only after a block that made more than its size)
BatchContinueStrict(runAll, stepLimit, steps, bs) ==
  (runAll \/ stepLimit > 0) /\ steps > bs

\* main.js:569
BatchContinue(runAll, stepLimit, steps, bs) ==
  (runAll \/ stepLimit > 0) /\ steps >= bs

\* main.js:483
BenchBatchLimit == 0

CommandStepLimit(cmd, bat) == IF cmd = "run" THEN 0 ELSE bat

FlagsRejected(cmd) == cmd \notin {"run", "shell", "step", "batch"}

\* roundResult.status() and what a round's call can come to.
RoundOutcomes == {"fulfilled", "rejected", "pending"}

DumpOutcomes == IF doDumps THEN {"ok", "fail"} ELSE {"skip"}
AuditOutcomes == IF doAudits THEN {"ok", "fail"} ELSE {"skip"}

\* ---- calls ----------------------------------------------------------------
\* runBlock(requestedSteps, doCommit), entered from a caller resuming at `back`.
CallBlock(f, n, c, back) ==
  [f EXCEPT !.pc = "bl506", !.stack = <<back>> \o @,
            !.requestedSteps = n, !.actualSteps = 0, !.doCommit = c,
            !.cur = [NoBlock EXCEPT !.n = n, !.commit = c, !.preP = persisted]]

\* runBatch(stepLimit, doCommit) up to its first call of runBlock.
\* `w` is the work the Engine holds when the batch is entered.
CallBatch(f, limit, c, back, w) ==
  CallBlock([f EXCEPT !.stack = <<back>> \o @,
                      !.stepLimit = limit, !.totalSteps = 0, !.steps = 0,
                      !.runAll = RunAll(limit), !.batchDoCommit = c,
                      !.curBat = [NoBatch EXCEPT !.limit = limit, !.commit = c,
                                                 !.blocks = 1, !.preW = w]],
            blockSize, c, "ba567")

\* runBenchmark(rounds) up to its loop.
CallBenchmark(f, r, back) ==
  [f EXCEPT !.pc = "rb474", !.stack = <<back>> \o @,
            !.rounds = r, !.i = 0, !.benchSteps = 0,
            !.cranksPre = stored, !.statsPre = stats,
            !.ben = [NoBench EXCEPT !.rounds = r]]

\* ---- main(): configuration, store, dispatch --------------------------------
InitWith(commands) ==
  /\ command \in commands
  /\ blockSize \in 0..MaxBlockSize
  /\ batchSize \in 0..MaxBatchSize
  /\ blockMode \in Booleans
  /\ benchmarkRounds \in 0..MaxBenchRounds
  /\ doDumps \in Booleans
  /\ doAudits \in Booleans
  /\ logging \in Booleans
  /\ logStats \in Booleans
  \* beside another log flag --logstats only adds columns to the rows
  /\ logging => ~logStats
  /\ command = "bogus" =>
       /\ blockSize = 1 /\ batchSize = 0 /\ ~blockMode /\ benchmarkRounds = 0
       /\ ~doDumps /\ ~doAudits /\ ~logging /\ ~logStats
  /\ command \in {"run", "step"} => batchSize = 0
  /\ command = "step" =>
       /\ blockSize = 1 /\ ~blockMode /\ benchmarkRounds = 0
  /\ command = "shell" =>
       /\ batchSize = 0 /\ ~blockMode /\ benchmarkRounds = 0
  /\ storeState = "unopened"
  /\ persisted \in 0..MaxPrior
  /\ stored = persisted
  /\ work \in 0..MaxWork
  /\ crankNumber = InitialCrankNumber
  /\ blockNumber = InitialBlockNumber
  /\ statLogger = "none"
  /\ cli = "off"
  /\ cmds = 0
  /\ roundOutcome \in (IF benchmarkRounds > 0 THEN RoundOutcomes
                                               ELSE {"fulfilled"})
  /\ stats = 0
  /\ ev = NoEvents
  /\ rows = <<>>
  /\ tk = [t \in Tasks |-> IF t = Main THEN [Frame0 EXCEPT !.pc = "Configuring"]
                                         ELSE Frame0]

\* What a round's call comes to changes nothing the driver does but the line
\* it logs: the runs of Init have at most MaxRounds rounds, all fulfilled, and
\* the runs of InitBench have the longer benchmarks and the other outcomes.
Init ==
  /\ InitWith({"run", "batch", "step", "bogus"})
  /\ benchmarkRounds <= MaxRounds
  /\ roundOutcome = "fulfilled"

InitBench ==
  /\ InitWith({"run", "batch"})
  /\ persisted = 0
  /\ ~doDumps /\ ~logging /\ ~logStats

\* The shell is started on a store without earlier cranks and without --dump
\* (a failed dump ends a block as a failed audit does).
InitShell ==
  /\ InitWith({"shell"})
  /\ persisted = 0
  /\ roundOutcome = "fulfilled"
  /\ ~doDumps /\ ~logStats

\* main.js:171-275: flags and the command are parsed; an unknown command fails.
\* The numbers given to --blocksize, --batchsize and --benchmark are not examined.
ParseFlags ==
  /\ tk[Main].pc = "Configuring"
  /\ tk' = [tk EXCEPT ![Main].pc =
              IF FlagsRejected(command) THEN "Failed" ELSE "StoreOpen"]
  /\ UNCHANGED <<cfgVars, stats, obsVars, storeVars, work, crankNumber,
                 blockNumber, statLogger, cli, cmds>>

\* main.js:311-371: the store is opened, the controller built, the statistics
\* logger made, the counters set.
OpenStore ==
  /\ tk[Main].pc = "StoreOpen"
  /\ storeState' = "open"
  /\ statLogger' = IF HasStatLogger(logging) THEN "open" ELSE "none"
  /\ blockNumber' = InitialBlockNumber
  /\ crankNumber' = InitialCrankNumber
  /\ tk' = [tk EXCEPT ![Main].pc = "Dispatch"]
  /\ UNCHANGED <<cfgVars, stats, obsVars, stored, persisted, work, cli, cmds>>

\* main.js:372-380: run and batch.
DispatchRun ==
  /\ tk[Main].pc = "Dispatch"
  /\ command \in {"run", "batch"}
  /\ tk' = [tk EXCEPT ![Main] =
              [@ EXCEPT !.pc = "cr574", !.stack = <<"main455">>,
                        !.stepLimit = CommandStepLimit(command, batchSize),
                        !.runInBlockMode = blockMode]]
  /\ UNCHANGED <<cfgVars, stats, obsVars, storeVars, work, crankNumber,
                 blockNumber, statLogger, cli, cmds>>

\* main.js:381-382: step.
DispatchStep ==
  /\ tk[Main].pc = "Dispatch"
  /\ command = "step"
  /\ tk' = [tk EXCEPT ![Main].pc = "st382"]
  /\ ev' = Stepping(ev)
  /\ UNCHANGED <<cfgVars, stats, rows, storeVars, work, crankNumber,
                 blockNumber, statLogger, cli, cmds>>

\* (the single step's store is closed before it is committed)
StepCommandCloseFirst ==
  /\ tk[Main].pc = "st383"
  /\ ~Busy
  /\ persisted' = Committed(stored)
  /\ storeState' = "closed"
  /\ ev' = Committing(Closing(ev))
  /\ tk' = [tk EXCEPT ![Main].pc = "main455"]
  /\ UNCHANGED <<cfgVars, stats, rows, stored, work, crankNumber, blockNumber,
                 statLogger, cli, cmds>>

\* main.js:383-387: the single step is committed and the store closed.
StepCommand ==
  /\ tk[Main].pc = "st383"
  /\ ~Busy
  /\ persisted' = Committed(stored)
  /\ storeState' = "closed"
  /\ ev' = Closing(Committing(ev))
  /\ tk' = [tk EXCEPT ![Main].pc = "main455"]
  /\ UNCHANGED <<cfgVars, stats, rows, stored, work, crankNumber, blockNumber,
                 statLogger, cli, cmds>>

\* main.js:455-457.
MainFinish ==
  /\ tk[Main].pc = "main455"
  /\ statLogger' = IF statLogger = "none" THEN "none" ELSE "closed"
  /\ tk' = [tk EXCEPT ![Main].pc = "Exited"]
  /\ UNCHANGED <<cfgVars, stats, obsVars, storeVars, work, crankNumber,
                 blockNumber, cli, cmds>>

\* ---- the Engine completes a step -------------------------------------------
StepComplete(t) ==
  /\ tk[t].pc \in AwaitingStep
  /\ ~Busy
  /\ LET n == EngineStep(work) IN
       /\ work' = work - n
       /\ stored' = stored + n
       /\ stats' = stats + n
       /\ ev' = Cranked(ev, n)
       /\ tk' = [tk EXCEPT ![t] =
                   [@ EXCEPT !.stepped = n,
                             !.pc = CASE @ = "bl509" -> "bl510"
                                      [] @ = "st382" -> "st383"
                                      [] OTHER -> "sh446"]]
  /\ UNCHANGED <<cfgVars, rows, storeState, persisted, crankNumber,
                 blockNumber, statLogger, cli, cmds>>

\* ---- runBlock ----------------------------------------------------------------
\* main.js:506-509: the loop test; a crank is requested of the Engine.
BlockLoop(t) ==
  /\ tk[t].pc = "bl506"
  /\ tk' = [tk EXCEPT ![t] =
              IF LoopGuard(@.requestedSteps)
              THEN [@ EXCEPT !.requestedSteps = @ - 1, !.pc = "bl509",
                             !.cur.issued = @ + 1]
              ELSE [@ EXCEPT !.pc = "bl525"]]
  /\ ev' = IF LoopGuard(tk[t].requestedSteps) THEN Stepping(ev) ELSE ev
  /\ UNCHANGED <<cfgVars, stats, rows, storeVars, work, crankNumber,
                 blockNumber, statLogger, cli, cmds>>

\* (a block that commits after each crank)
BlockSteppedCommitEach(t) ==
  /\ tk[t].pc = "bl510"
  /\ ~Busy
  /\ IF OutOfWork(tk[t].stepped)
     THEN /\ tk' = [tk EXCEPT ![t].pc = "bl525"]
          /\ UNCHANGED crankNumber
     ELSE /\ crankNumber' = crankNumber + tk[t].stepped
          /\ \E d \in DumpOutcomes, a \in AuditOutcomes :
               tk' = [tk EXCEPT ![t] =
                        LET f == [@ EXCEPT !.actualSteps = @ + tk[t].stepped] IN
                        IF d = "fail" \/ a = "fail"
                        THEN Throw(f)
                        ELSE [f EXCEPT !.pc = "bl506"]]
  /\ persisted' = IF tk[t].doCommit /\ ~OutOfWork(tk[t].stepped)
                  THEN Committed(stored) ELSE persisted
  /\ ev' = IF OutOfWork(tk[t].stepped) THEN ev
           ELSE IF tk[t].doCommit THEN Committing(Checked(ev))
           ELSE Checked(ev)
  /\ UNCHANGED <<cfgVars, stats, rows, storeState, stored, work, blockNumber,
                 statLogger, cli, cmds>>

\* (a block that goes on after a failed audit)
BlockSteppedAuditIgnored(t) ==
  /\ tk[t].pc = "bl510"
  /\ ~Busy
  /\ IF OutOfWork(tk[t].stepped)
     THEN /\ tk' = [tk EXCEPT ![t].pc = "bl525"]
          /\ UNCHANGED crankNumber
     ELSE /\ crankNumber' = crankNumber + tk[t].stepped
          /\ \E d \in DumpOutcomes, a \in AuditOutcomes :
               tk' = [tk EXCEPT ![t] =
                        LET f == [@ EXCEPT !.actualSteps = @ + tk[t].stepped] IN
                        IF d = "fail" THEN Throw(Failure(f, "dump", ev))
                        ELSE IF a = "fail"
                        THEN [Failure(f, "audit", ev) EXCEPT !.pc = "bl506"]
                        ELSE [f EXCEPT !.pc = "bl506"]]
  /\ ev' = IF OutOfWork(tk[t].stepped) THEN ev ELSE Checked(ev)
  /\ UNCHANGED <<cfgVars, stats, rows, storeVars, work, blockNumber,
                 statLogger, cli, cmds>>

\* main.js:510-524: the step has returned; count, dump, audit.
BlockStepped(t) ==
  /\ tk[t].pc = "bl510"
  /\ ~Busy
  /\ IF OutOfWork(tk[t].stepped)
     THEN /\ tk' = [tk EXCEPT ![t].pc = "bl525"]
          /\ UNCHANGED <<crankNumber, ev>>
     ELSE /\ crankNumber' = crankNumber + tk[t].stepped
          /\ \E d \in DumpOutcomes, a \in AuditOutcomes :
               /\ tk' = [tk EXCEPT ![t] =
                        LET f == [@ EXCEPT !.actualSteps = @ + tk[t].stepped] IN
                        IF d = "fail" THEN Throw(Failure(f, "dump", ev))
                        ELSE IF a = "fail" THEN Throw(Failure(f, "audit", ev))
                        ELSE [f EXCEPT !.pc = "bl506"]]
               /\ ev' = IF d = "ok"
                        THEN Dumped(Checked(ev),
                                    DumpTag(crankNumber, tk[t].stepped))
                        ELSE Checked(ev)
  /\ UNCHANGED <<cfgVars, stats, rows, storeVars, work, blockNumber,
                 statLogger, cli, cmds>>

\* main.js:525-556: the commit, the statistics row, the return.
BlockFinish(t) ==
  /\ tk[t].pc = "bl525"
  /\ statLogger # "none" => blockNumber < MaxBlocks
  /\ persisted' = IF CommitAfterLoop(tk[t].doCommit) THEN Committed(stored)
                                                      ELSE persisted
  /\ blockNumber' = IF statLogger # "none" THEN NextBlockNumber(blockNumber)
                                           ELSE blockNumber
  /\ ev' = IF CommitAfterLoop(tk[t].doCommit) THEN Committing(ev) ELSE ev
  /\ rows' = IF statLogger # "none"
             THEN Append(rows, [block |-> NextBlockNumber(blockNumber),
                                steps |-> tk[t].actualSteps,
                                logger |-> statLogger])
             ELSE rows
  /\ tk' = [tk EXCEPT ![t] =
              LET done == [@.cur EXCEPT
                             !.ret = tk[t].actualSteps,
                             !.commits = IF CommitAfterLoop(tk[t].doCommit)
                                         THEN @ + 1 ELSE @,
                             !.rows = IF statLogger # "none" THEN @ + 1 ELSE @,
                             !.done = TRUE] IN
              Return([@ EXCEPT !.requestedSteps = 0, !.actualSteps = 0,
                               !.doCommit = FALSE, !.stepped = 0,
                               !.cur = NoBlock, !.blk = done],
                     tk[t].actualSteps)]
  /\ UNCHANGED <<cfgVars, stats, storeState, stored, work, crankNumber,
                 statLogger, cli, cmds>>

\* ---- runBatch ----------------------------------------------------------------
\* main.js:567-570: a block has returned; the next block, or the return.
BatchStepped(t) ==
  /\ tk[t].pc = "ba567"
  /\ ~Busy
  /\ LET steps == tk[t].ret
         total == BatchTotal(tk[t].totalSteps, steps)
         limit == tk[t].stepLimit - steps
     IN
       IF BatchContinue(tk[t].runAll, limit, steps, blockSize)
       THEN /\ tk[t].curBat.blocks < MaxBlocks
            /\ tk' = [tk EXCEPT ![t] =
                        CallBlock([@ EXCEPT !.steps = steps, !.totalSteps = total,
                                            !.stepLimit = limit,
                                            !.curBat.blocks = @ + 1],
                                  blockSize, @.batchDoCommit, "ba567")]
       ELSE tk' = [tk EXCEPT ![t] =
                     Return([@ EXCEPT !.steps = 0, !.totalSteps = 0,
                                      !.stepLimit = 0, !.runAll = FALSE,
                                      !.batchDoCommit = FALSE,
                                      !.curBat = NoBatch,
                                      !.bat = [tk[t].curBat EXCEPT
                                                 !.total = total, !.done = TRUE]],
                            total)]
  /\ UNCHANGED <<cfgVars, stats, obsVars, storeVars, work, crankNumber,
                 blockNumber, statLogger, cli, cmds>>

\* ---- runBenchmark --------------------------------------------------------------
\* (a benchmark whose blocks do not commit)
BenchLoopNoCommit(t) ==
  /\ tk[t].pc = "rb474"
  /\ IF tk[t].i < tk[t].rounds
     THEN \E k \in 1..MaxRoundWork :
            /\ work' = work + k
            /\ tk' = [tk EXCEPT ![t] =
                        CallBatch([@ EXCEPT !.ben.enq = @ + 1],
                                  BenchBatchLimit, FALSE, "rb484", work + k)]
     ELSE /\ tk' = [tk EXCEPT ![t] =
                      Return([@ EXCEPT !.rounds = 0, !.i = 0, !.benchSteps = 0,
                                       !.cranksPre = 0, !.statsPre = 0,
                                       !.ben.cranks = stored - tk[t].cranksPre,
                                       !.ben.stats = stats - tk[t].statsPre,
                                       !.ben.done = TRUE],
                             tk[t].benchSteps)]
          /\ UNCHANGED work
  /\ UNCHANGED <<cfgVars, stats, obsVars, storeVars, crankNumber,
                 blockNumber, statLogger, cli, cmds>>

\* (a benchmark that runs one crank's worth of a round, not all of it)
BenchLoopOneCrank(t) ==
  /\ tk[t].pc = "rb474"
  /\ IF tk[t].i < tk[t].rounds
     THEN \E k \in 1..MaxRoundWork :
            /\ work' = work + k
            /\ tk' = [tk EXCEPT ![t] =
                        CallBatch([@ EXCEPT !.ben.enq = @ + 1],
                                  1, TRUE, "rb484", work + k)]
     ELSE /\ tk' = [tk EXCEPT ![t] =
                      Return([@ EXCEPT !.rounds = 0, !.i = 0, !.benchSteps = 0,
                                       !.cranksPre = 0, !.statsPre = 0,
                                       !.ben.cranks = stored - tk[t].cranksPre,
                                       !.ben.stats = stats - tk[t].statsPre,
                                       !.ben.done = TRUE],
                             tk[t].benchSteps)]
          /\ UNCHANGED work
  /\ UNCHANGED <<cfgVars, stats, obsVars, storeVars, crankNumber,
                 blockNumber, statLogger, cli, cmds>>

\* main.js:474-483 and 494-497: the loop test; a round is queued and drained.
BenchLoop(t) ==
  /\ tk[t].pc = "rb474"
  /\ IF tk[t].i < tk[t].rounds
     THEN \E k \in 1..MaxRoundWork :
            /\ work' = work + k
            /\ tk' = [tk EXCEPT ![t] =
                        CallBatch([@ EXCEPT !.ben.enq = @ + 1],
                                  BenchBatchLimit, TRUE, "rb484", work + k)]
     ELSE /\ tk' = [tk EXCEPT ![t] =
                      Return([@ EXCEPT !.rounds = 0, !.i = 0, !.benchSteps = 0,
                                       !.cranksPre = 0, !.statsPre = 0,
                                       !.ben.cranks = stored - tk[t].cranksPre,
                                       !.ben.stats = stats - tk[t].statsPre,
                                       !.ben.done = TRUE],
                             tk[t].benchSteps)]
          /\ UNCHANGED work
  /\ UNCHANGED <<cfgVars, stats, obsVars, storeVars, crankNumber, blockNumber,
                 statLogger, cli, cmds>>

\* (a benchmark that gives up at a round that did not finish)
BenchSteppedAbortOnPending(t) ==
  /\ tk[t].pc = "rb484"
  /\ ~Busy
  /\ LET status == RoundStatus(roundOutcome, work) IN
       tk' = [tk EXCEPT ![t] =
                IF status = "pending"
                THEN Return([@ EXCEPT !.rounds = 0, !.i = 0, !.benchSteps = 0,
                                      !.cranksPre = 0, !.statsPre = 0,
                                      !.ben.statuses = Append(@, status),
                                      !.ben.done = TRUE],
                            tk[t].benchSteps)
                ELSE [@ EXCEPT !.benchSteps = @ + tk[t].ret, !.i = @ + 1,
                               !.ben.statuses = Append(@, status),
                               !.pc = "rb474"]]
  /\ UNCHANGED <<cfgVars, stats, obsVars, storeVars, work, crankNumber,
                 blockNumber, statLogger, cli, cmds>>

\* main.js:484-492: the round's batch has returned.
BenchStepped(t) ==
  /\ tk[t].pc = "rb484"
  /\ ~Busy
  /\ tk' = [tk EXCEPT ![t] =
              [@ EXCEPT !.benchSteps = @ + tk[t].ret, !.i = @ + 1,
                        !.ben.statuses =
                           Append(@, RoundStatus(roundOutcome, work)),
                        !.pc = "rb474"]]
  /\ UNCHANGED <<cfgVars, stats, obsVars, storeVars, work, crankNumber,
                 blockNumber, statLogger, cli, cmds>>

\* ---- commandRun ------------------------------------------------------------------
\* main.js:574-581: the initial dump and audit, then the batch.
RunStart(t) ==
  /\ tk[t].pc = "cr574"
  /\ \E d \in DumpOutcomes, a \in AuditOutcomes :
       /\ tk' = [tk EXCEPT ![t] =
                   IF d = "fail" THEN Throw(Failure(@, "dump", ev))
                   ELSE IF a = "fail" THEN Throw(Failure(@, "audit", ev))
                   ELSE CallBatch(@, @.stepLimit, @.runInBlockMode, "cr582",
                                  work)]
       /\ ev' = IF d = "ok" THEN Dumped(ev, crankNumber) ELSE ev
  /\ UNCHANGED <<cfgVars, stats, rows, storeVars, work, crankNumber,
                 blockNumber, statLogger, cli, cmds>>

\* (commandRun leaving out the commit of a run not in block mode)
RunBatchDoneNoCommit(t) ==
  /\ tk[t].pc = "cr582"
  /\ ~Busy
  /\ tk' = [tk EXCEPT ![t] =
              IF benchmarkRounds > 0
              THEN CallBenchmark([@ EXCEPT !.crSteps = tk[t].ret],
                                 benchmarkRounds, "cr591")
              ELSE [@ EXCEPT !.crSteps = tk[t].ret, !.pc = "cr594"]]
  /\ UNCHANGED <<cfgVars, stats, obsVars, storeVars, work, crankNumber,
                 blockNumber, statLogger, cli, cmds>>

\* main.js:581-590: the batch has returned; the commit of a run not in block
\* mode; the benchmark, if any.
RunBatchDone(t) ==
  /\ tk[t].pc = "cr582"
  /\ ~Busy
  /\ persisted' = IF ~tk[t].runInBlockMode THEN Committed(stored) ELSE persisted
  /\ ev' = IF ~tk[t].runInBlockMode THEN Committing(ev) ELSE ev
  /\ tk' = [tk EXCEPT ![t] =
              IF benchmarkRounds > 0
              THEN CallBenchmark([@ EXCEPT !.crSteps = tk[t].ret],
                                 benchmarkRounds, "cr591")
              ELSE [@ EXCEPT !.crSteps = tk[t].ret, !.pc = "cr594"]]
  /\ UNCHANGED <<cfgVars, stats, rows, storeState, stored, work, crankNumber,
                 blockNumber, statLogger, cli, cmds>>

\* main.js:590-593: the benchmark has returned.
RunBenchDone(t) ==
  /\ tk[t].pc = "cr591"
  /\ ~Busy
  /\ tk' = [tk EXCEPT ![t] = [@ EXCEPT !.crSteps = @ + tk[t].ret, !.pc = "cr594"]]
  /\ UNCHANGED <<cfgVars, stats, obsVars, storeVars, work, crankNumber,
                 blockNumber, statLogger, cli, cmds>>

\* main.js:594-621: the store is closed, the results reported.
RunClose(t) ==
  /\ tk[t].pc = "cr594"
  /\ storeState' = "closed"
  /\ ev' = Closing(ev)
  /\ tk' = [tk EXCEPT ![t] = Return(@, 0)]
  /\ UNCHANGED <<cfgVars, stats, rows, stored, persisted, work, crankNumber,
                 blockNumber, statLogger, cli, cmds>>

\* ---- the interactive shell ---------------------------------------------------
\* main.js:388-396 and 450: the repl is started and its commands defined.
DispatchShell ==
  /\ tk[Main].pc = "Dispatch"
  /\ command = "shell"
  /\ cli' = "on"
  /\ tk' = [tk EXCEPT ![Main].pc = "main455"]
  /\ UNCHANGED <<cfgVars, stats, obsVars, storeVars, work, crankNumber,
                 blockNumber, statLogger, cmds>>

\* The operator can enter a command whenever no task is running.
Prompt == cli = "on" /\ ~Busy /\ cmds < MaxCommands

\* The slot a new command's task takes.
FreeSlot(t) ==
  /\ t \in ShellTasks
  /\ tk[t].pc = "idle"
  /\ \A u \in ShellTasks : u < t => tk[u].pc # "idle"

\* main.js:393-395: the repl exits.
ShellExit ==
  /\ cli = "on"
  /\ ~Busy
  /\ cli' = "exited"
  /\ storeState' = "closed"
  /\ ev' = Closing(ev)
  /\ UNCHANGED <<cfgVars, stats, rows, stored, persisted, work, crankNumber,
                 blockNumber, statLogger, cmds, tk>>

\* main.js:397-404: commit.
ShellCommit ==
  /\ Prompt
  /\ cmds' = cmds + 1
  /\ persisted' = Committed(stored)
  /\ ev' = Committing([ev EXCEPT !.commitCmds = @ + 1])
  /\ UNCHANGED <<cfgVars, stats, rows, storeState, stored, work, crankNumber,
                 blockNumber, statLogger, cli, tk>>

\* main.js:405-417: dump; the kernel tables are printed, no file is written.
ShellDump ==
  /\ Prompt
  /\ cmds' = cmds + 1
  /\ UNCHANGED <<cfgVars, stats, obsVars, storeVars, work, crankNumber,
                 blockNumber, statLogger, cli, tk>>

\* main.js:418-421: block <n>.
ShellBlock ==
  /\ Prompt
  /\ cmds' = cmds + 1
  /\ \E t \in ShellTasks, requestedSteps \in 0..MaxArg :
       /\ FreeSlot(t)
       /\ tk' = [tk EXCEPT ![t] = CallBlock(Frame0, requestedSteps, FALSE, "sh422")]
  /\ UNCHANGED <<cfgVars, stats, obsVars, storeVars, work, crankNumber,
                 blockNumber, statLogger, cli>>

\* main.js:426-429: benchmark <n>.
ShellBenchmark ==
  /\ Prompt
  /\ cmds' = cmds + 1
  /\ \E t \in ShellTasks, rounds \in 0..MaxArg :
       /\ FreeSlot(t)
       /\ tk' = [tk EXCEPT ![t] = CallBenchmark(Frame0, rounds, "sh430")]
  /\ ev' = [ev EXCEPT !.benchCmds = @ + 1]
  /\ UNCHANGED <<cfgVars, stats, rows, storeVars, work, crankNumber,
                 blockNumber, statLogger, cli>>

\* (a run command that commits its blocks)
ShellRunCommitting ==
  /\ Prompt
  /\ cmds' = cmds + 1
  /\ \E t \in ShellTasks :
       /\ FreeSlot(t)
       /\ tk' = [tk EXCEPT ![t] = CallBatch(Frame0, 0, TRUE, "sh438", work)]
  /\ UNCHANGED <<cfgVars, stats, obsVars, storeVars, work, crankNumber,
                 blockNumber, statLogger, cli>>

\* main.js:434-437: run.
ShellRun ==
  /\ Prompt
  /\ cmds' = cmds + 1
  /\ \E t \in ShellTasks :
       /\ FreeSlot(t)
       /\ tk' = [tk EXCEPT ![t] = CallBatch(Frame0, 0, FALSE, "sh438", work)]
  /\ UNCHANGED <<cfgVars, stats, obsVars, storeVars, work, crankNumber,
                 blockNumber, statLogger, cli>>

\* main.js:442-445: step.
ShellStep ==
  /\ Prompt
  /\ cmds' = cmds + 1
  /\ \E t \in ShellTasks :
       /\ FreeSlot(t)
       /\ tk' = [tk EXCEPT ![t] = [Frame0 EXCEPT !.pc = "sh445"]]
  /\ ev' = Stepping(ev)
  /\ UNCHANGED <<cfgVars, stats, rows, storeVars, work, crankNumber,
                 blockNumber, statLogger, cli>>

\* main.js:422-423, 430-431, 438-439, 446-447: the command's result is logged
\* and the prompt displayed.
ShellReply(t) ==
  /\ tk[t].pc \in {"sh422", "sh430", "sh438", "sh446"}
  /\ ~Busy
  /\ tk' = [tk EXCEPT ![t] = Frame0]
  /\ UNCHANGED <<cfgVars, stats, obsVars, storeVars, work, crankNumber,
                 blockNumber, statLogger, cli, cmds>>

\* ---- the specification of the run, batch and step commands -----------------------
Next ==
  \/ ParseFlags
  \/ OpenStore
  \/ DispatchRun
  \/ DispatchStep
  \/ StepCommand
  \/ MainFinish
  \/ \E t \in Tasks : StepComplete(t)
  \/ \E t \in Tasks : BlockLoop(t)
  \/ \E t \in Tasks : BlockStepped(t)
  \/ \E t \in Tasks : BlockFinish(t)
  \/ \E t \in Tasks : BatchStepped(t)
  \/ \E t \in Tasks : BenchLoop(t)
  \/ \E t \in Tasks : BenchStepped(t)
  \/ \E t \in Tasks : RunStart(t)
  \/ \E t \in Tasks : RunBatchDone(t)
  \/ \E t \in Tasks : RunBenchDone(t)
  \/ \E t \in Tasks : RunClose(t)

Spec == Init /\ [][Next]_vars

\* ---- the specification of the run and batch commands with a benchmark ----------
NextBench ==
  \/ ParseFlags
  \/ OpenStore
  \/ DispatchRun
  \/ MainFinish
  \/ \E t \in Tasks : StepComplete(t)
  \/ \E t \in Tasks : BlockLoop(t)
  \/ \E t \in Tasks : BlockStepped(t)
  \/ \E t \in Tasks : BlockFinish(t)
  \/ \E t \in Tasks : BatchStepped(t)
  \/ \E t \in Tasks : BenchLoop(t)
  \/ \E t \in Tasks : BenchStepped(t)
  \/ \E t \in Tasks : RunStart(t)
  \/ \E t \in Tasks : RunBatchDone(t)
  \/ \E t \in Tasks : RunBenchDone(t)
  \/ \E t \in Tasks : RunClose(t)

SpecBench == InitBench /\ [][NextBench]_vars

\* ---- the specification of the shell command ------------------------------------
NextShell ==
  \/ ParseFlags
  \/ OpenStore
  \/ DispatchShell
  \/ MainFinish
  \/ ShellExit
  \/ ShellCommit
  \/ ShellDump
  \/ ShellBlock
  \/ ShellBenchmark
  \/ ShellRun
  \/ ShellStep
  \/ \E t \in Tasks : ShellReply(t)
  \/ \E t \in Tasks : StepComplete(t)
  \/ \E t \in Tasks : BlockLoop(t)
  \/ \E t \in Tasks : BlockStepped(t)
  \/ \E t \in Tasks : BlockFinish(t)
  \/ \E t \in Tasks : BatchStepped(t)
  \/ \E t \in Tasks : BenchLoop(t)
  \/ \E t \in Tasks : BenchStepped(t)

SpecShell == InitShell /\ [][NextShell]_vars

\* ---- the shell of an operator who waits for each command's reply -------------
AllReplied == \A t \in ShellTasks : tk[t].pc = "idle"

\* Its runs are without statistics logging.
InitShellSeq == InitShell /\ ~logging

NextShellSeq ==
  \/ ParseFlags
  \/ OpenStore
  \/ DispatchShell
  \/ MainFinish
  \/ ShellExit
  \/ AllReplied /\ ShellCommit
  \/ AllReplied /\ ShellDump
  \/ AllReplied /\ ShellBlock
  \/ AllReplied /\ ShellBenchmark
  \/ AllReplied /\ ShellRun
  \/ AllReplied /\ ShellStep
  \/ \E t \in Tasks : ShellReply(t)
  \/ \E t \in Tasks : StepComplete(t)
  \/ \E t \in Tasks : BlockLoop(t)
  \/ \E t \in Tasks : BlockStepped(t)
  \/ \E t \in Tasks : BlockFinish(t)
  \/ \E t \in Tasks : BatchStepped(t)
  \/ \E t \in Tasks : BenchLoop(t)
  \/ \E t \in Tasks : BenchStepped(t)

SpecShellSeq == InitShellSeq /\ [][NextShellSeq]_vars

\* The event loop runs every continuation that is ready, and the Engine
\* completes every step asked of it.
\* Termination does not depend on the cranks of earlier processes: the runs
\* start on a store without them.
InitFair == Init /\ persisted = 0

SpecFair == InitFair /\ [][Next]_vars /\ WF_vars(Next)

\* ---- observations ------------------------------------------------------------------
\* runBlock has just returned to its caller; tk[t].blk describes the call.
BlockReturned(t) == tk[t].pc \in {"ba567", "sh422"} /\ tk[t].blk.done

\* runBatch has just returned to its caller; tk[t].bat describes the call.
BatchReturned(t) == tk[t].pc \in {"cr582", "rb484", "sh438"} /\ tk[t].bat.done

\* runBenchmark has just returned to its caller; tk[t].ben describes the call.
BenchReturned(t) == tk[t].pc \in {"cr591", "sh430"} /\ tk[t].ben.done

\* The task is inside runBlock, inside runBatch.
InBlock(t) == tk[t].pc \in {"bl506", "bl509", "bl510", "bl525"}
InBatch(t) ==
  \/ tk[t].pc = "ba567"
  \/ (InBlock(t) /\ Head(tk[t].stack) = "ba567")

\* The task is inside runBenchmark.
InBench(t) ==
  \/ tk[t].pc \in {"rb474", "rb484"}
  \/ \E k \in 1..Len(tk[t].stack) : tk[t].stack[k] = "rb484"

Max(a, b) == IF a >= b THEN a ELSE b

\* ---- claims ------------------------------------------------------------------------
\* C1: in every mode, the interactive shell included, the driver never has two
\* Engine steps in flight at once and never commits the store while a step is
\* in flight.
C1_StepsAndCommitsNeverOverlap ==
  [][/\ Cardinality(InFlight') <= 1
     /\ persisted' # persisted => InFlight = {}]_vars

\* C2: when runBlock(N, true) has returned, the store's persisted crank counter
\* equals the driver's in-memory crank number.
C2_PersistedEqualsCrankNumber ==
  \A t \in Tasks :
    BlockReturned(t) /\ tk[t].blk.commit => persisted = crankNumber

\* C3: runBlock(N, false) does not commit: when it has returned the persisted
\* crank counter is not greater than it was when the block was entered.
C3_NoCommitBlockPersistsNothing ==
  \A t \in Tasks :
    BlockReturned(t) /\ ~tk[t].blk.commit =>
      /\ tk[t].blk.commits = 0
      /\ persisted <= tk[t].blk.preP

C3_Witness ==
  \E t \in Tasks :
    /\ BlockReturned(t) /\ ~tk[t].blk.commit
    /\ tk[t].blk.ret > 0
    /\ stored > persisted

\* C4 as stated: runBlock(0, commit) returns 0, issues no step, performs no
\* commit and emits no statistics row.
C4_ZeroBlockIsNoOp ==
  \A t \in Tasks :
    BlockReturned(t) /\ tk[t].blk.n = 0 =>
      /\ tk[t].blk.ret = 0
      /\ tk[t].blk.issued = 0
      /\ tk[t].blk.commits = 0
      /\ tk[t].blk.rows = 0

\* C4 as amended: runBlock(0, commit) returns 0 and issues no step; it commits
\* exactly when commit is true and emits one statistics row exactly when the
\* statistics logger exists.
C4_ZeroBlockStepsNothing ==
  \A t \in Tasks :
    BlockReturned(t) /\ tk[t].blk.n = 0 =>
      /\ tk[t].blk.ret = 0
      /\ tk[t].blk.issued = 0
      /\ tk[t].blk.commits = (IF tk[t].blk.commit THEN 1 ELSE 0)
      /\ tk[t].blk.rows = (IF logging THEN 1 ELSE 0)

C4_Witness ==
  \E t \in Tasks :
    /\ BlockReturned(t) /\ tk[t].blk.n = 0
    /\ tk[t].blk.commit /\ tk[t].blk.commits = 1
    /\ tk[t].blk.rows = 1
    /\ work > 0

\* C5: a runBlock(N, true) call commits exactly once, after its last crank:
\* nothing is persisted while the block is stepping, and when it returns
\* everything stepped is persisted by its one commit.
C5_OneCommitAfterLastCrank ==
  \A t \in Tasks :
    /\ InBlock(t) /\ tk[t].cur.commit =>
         /\ tk[t].cur.commits = 0
         /\ persisted = tk[t].cur.preP
    /\ BlockReturned(t) /\ tk[t].blk.commit =>
         /\ tk[t].blk.commits = 1
         /\ persisted = stored

C5_Witness ==
  \E t \in Tasks :
    /\ BlockReturned(t) /\ tk[t].blk.commit
    /\ tk[t].blk.ret >= 2
    /\ tk[t].blk.commits = 1
    /\ persisted = stored /\ persisted >= tk[t].blk.preP + 2

\* C6: in a committing batch, when the first step of a block after the first
\* is in flight, the block before it has committed and every crank made so far
\* is persisted.
C6_CommitBeforeNextBlockSteps ==
  \A t \in Tasks :
    /\ tk[t].pc = "bl509" /\ InBatch(t)
    /\ tk[t].batchDoCommit /\ tk[t].curBat.blocks >= 2
    /\ tk[t].cur.issued = 1
    => /\ tk[t].blk.done /\ tk[t].blk.commits = 1
       /\ persisted = stored

C6_Witness ==
  \E t \in Tasks :
    /\ tk[t].pc = "bl509" /\ InBatch(t)
    /\ tk[t].batchDoCommit /\ tk[t].curBat.blocks = 2
    /\ tk[t].cur.issued = 1
    /\ tk[t].blk.ret > 0
    /\ persisted = stored

\* C7: runBatch(S, commit) returns totalSteps <= max(S, W), W the work the
\* Engine held when the batch was entered.
C7_BatchTotalBounded ==
  \A t \in Tasks :
    BatchReturned(t) =>
      tk[t].bat.total <= Max(tk[t].bat.limit, tk[t].bat.preW)

C7_Witness ==
  \E t \in Tasks :
    /\ BatchReturned(t)
    /\ tk[t].bat.limit > 0
    /\ tk[t].bat.total > tk[t].bat.limit
    /\ tk[t].bat.total = tk[t].bat.preW

\* C8: with a block size above 0, a runBatch that has been entered returns (or
\* is aborted by a failed dump or audit).
C8_BatchTerminates ==
  (blockSize > 0 /\ InBatch(Main))
    ~> (~InBatch(Main) \/ tk[Main].pc = "Thrown")

C8_Witness ==
  /\ BatchReturned(Main)
  /\ blockSize > 0
  /\ tk[Main].bat.blocks >= 2
  /\ tk[Main].bat.total > 0

C10_ZeroBlockSizeRejected ==
  blockSize = 0 =>
    /\ storeState = "unopened"
    /\ \A t \in Tasks : ~InBatch(t)

\* C11: in single-step mode the driver issues exactly one Engine step, commits
\* the store once the step has returned, then closes the store, whether or
\* not the step made a crank; nothing is stepped or committed after the close.
C11_SingleStepCommitClose ==
  command = "step" =>
    /\ ev.steps <= 1 /\ ev.commits <= 1 /\ ev.closes <= 1
    /\ ev.commits = 1 => (ev.steps = 1 /\ InFlight = {})
    /\ ev.closes = 1 => ev.commits = 1
    /\ ev.afterClose = 0
    /\ tk[Main].pc \in {"main455", "Exited"} =>
         /\ ev.steps = 1 /\ ev.commits = 1 /\ ev.closes = 1
         /\ storeState = "closed"
         /\ persisted = stored

C11_Witness ==
  /\ command = "step"
  /\ tk[Main].pc = "Exited"
  /\ tk[Main].stepped = 0
  /\ ev.steps = 1 /\ ev.commits = 1 /\ ev.closes = 1
  /\ storeState = "closed"

\* C12 as stated: in the shell nothing but the operator's commit command
\* commits the store: as long as no commit command has been entered, no commit
\* has been made, whatever block, run, step, benchmark and dump commands were.
C12_OnlyCommitCommandCommits ==
  command = "shell" /\ ev.commitCmds = 0 => ev.commits = 0

\* C12 as amended: in the shell nothing but the operator's commit and benchmark
\* commands commits the store: as long as no benchmark command has been
\* entered, the commits made are the commit commands entered, one each, and
\* with no commit command either nothing is persisted.
C12_OnlyCommitAndBenchmarkCommit ==
  command = "shell" /\ ev.benchCmds = 0 =>
    /\ ev.commits = ev.commitCmds
    /\ ev.commitCmds = 0 => persisted = 0

C12_Witness ==
  /\ command = "shell"
  /\ ev.benchCmds = 0 /\ ev.commitCmds = 0
  /\ cmds = MaxCommands
  /\ AllReplied
  /\ stored > 0
  /\ ev.steps > 1
  /\ ev.commits = 0 /\ persisted = 0

\* C13: a failed audit is fatal: the runBlock it happened in does not return,
\* no Engine step and no commit is made after it, and its runBatch starts no
\* further block.
C13_AuditFailureIsFatal ==
  \A t \in Tasks :
    tk[t].err.what = "audit" =>
      /\ tk[t].pc = "Thrown"
      /\ ev.steps = tk[t].err.steps
      /\ ev.commits = tk[t].err.commits
      /\ tk[t].cur.commits = 0
      /\ tk[t].curBat.blocks = tk[t].err.blocks

C13_Witness ==
  \E t \in Tasks :
    /\ tk[t].err.what = "audit"
    /\ tk[t].pc = "Thrown"
    /\ tk[t].actualSteps = 1 /\ tk[t].requestedSteps > 0
    /\ tk[t].doCommit
    /\ work > 0
    /\ stored > persisted

\* C14: when a failure has ended a run or batch command, the store is closed.
C14_StoreClosedAfterFailure ==
  command \in {"run", "batch"} /\ tk[Main].pc = "Thrown" => storeState = "closed"

\* C15: runBenchmark(R) queues and drains exactly R rounds: while it runs every
\* round queued but the last has its status recorded, a round's batch returns
\* with the Engine drained, and when it returns R rounds were queued and R
\* statuses recorded, the rounds that stayed pending among them.
C15_BenchmarkRunsEveryRound ==
  \A t \in Tasks :
    /\ tk[t].ben.enq <= tk[t].ben.rounds
    /\ Len(tk[t].ben.statuses) <= tk[t].ben.enq
    /\ tk[t].ben.enq <= Len(tk[t].ben.statuses) + 1
    /\ tk[t].pc = "rb484" =>
         /\ work = 0
         /\ tk[t].ben.enq = Len(tk[t].ben.statuses) + 1
    /\ BenchReturned(t) =>
         /\ tk[t].ben.enq = tk[t].ben.rounds
         /\ Len(tk[t].ben.statuses) = tk[t].ben.rounds

C15_Witness ==
  \E t \in Tasks :
    /\ BenchReturned(t)
    /\ tk[t].ben.rounds = MaxBenchRounds
    /\ tk[t].ben.enq = MaxBenchRounds
    /\ tk[t].ben.statuses = [k \in 1..MaxBenchRounds |-> "pending"]
    /\ tk[t].ben.cranks >= MaxBenchRounds

\* C16: with an Engine that fulfils every round's call, runBenchmark(R) records
\* R statuses, all fulfilled, and the deltas of the crank counter and of the
\* Engine's statistics over the benchmark, and their shares per round, are not
\* negative.
C16_FulfilledRoundsAndDeltas ==
  \A t \in Tasks :
    BenchReturned(t) /\ roundOutcome = "fulfilled" =>
      /\ tk[t].ben.statuses = [k \in 1..tk[t].ben.rounds |-> "fulfilled"]
      /\ tk[t].ben.cranks >= 0
      /\ tk[t].ben.stats >= 0
      /\ tk[t].ben.rounds > 0 =>
           /\ PerRound(tk[t].ben.cranks, tk[t].ben.rounds) >= 0
           /\ PerRound(tk[t].ben.stats, tk[t].ben.rounds) >= 0

C16_Witness ==
  \E t \in Tasks :
    /\ BenchReturned(t) /\ roundOutcome = "fulfilled"
    /\ tk[t].ben.rounds = 3
    /\ tk[t].ben.statuses = <<"fulfilled", "fulfilled", "fulfilled">>
    /\ PerRound(tk[t].ben.cranks, tk[t].ben.rounds) >= 1
    /\ PerRound(tk[t].ben.stats, tk[t].ben.rounds) >= 1

Min(a, b) == IF a <= b THEN a ELSE b

\* C17: the batch command with a batch size S > 0 and a block size B > 0, on
\* an Engine holding W cranks of work, executes exactly min(S, W) cranks.
C17_BatchRunsMinOfSizeAndWork ==
  /\ command = "batch" /\ batchSize > 0 /\ blockSize > 0
  /\ tk[Main].pc = "cr582" /\ BatchReturned(Main)
  => /\ tk[Main].bat.total = Min(batchSize, tk[Main].bat.preW)
     /\ stats = Min(batchSize, tk[Main].bat.preW)

\* C18: in run and batch modes the store is closed exactly once, after the last
\* Engine step and the last commit: it is never closed twice, nothing is
\* stepped or committed on the closed store, and when the command has ended
\* the store has been closed.
C18_StoreClosedOnceAtTheEnd ==
  command \in {"run", "batch"} =>
    /\ ev.closes <= 1
    /\ ev.afterClose = 0
    /\ ev.closes = 1 => InFlight = {}
    /\ tk[Main].pc \in {"main455", "Exited", "Thrown"} => ev.closes = 1

\* C19: with statistics logging enabled every completed runBlock call has
\* appended exactly one row, none before its last step and its commit, and the
\* rows carry the block numbers 1, 2, 3, ... in the order they were appended.
C19_OneRowPerBlock ==
  /\ \A t \in Tasks :
       /\ InBlock(t) => tk[t].cur.rows = 0
       /\ BlockReturned(t) /\ StatsLoggingEnabled => tk[t].blk.rows = 1
  /\ \A k \in 1..Len(rows) : rows[k].block = k

\* C20: in every mode a crank that was executed is dumped (with dumping
\* enabled) and audited (with auditing enabled) before the next step is asked
\* of the Engine and before the store is committed.
C20_DumpAndAuditAfterEveryCrank ==
  [][(ev'.steps > ev.steps \/ ev'.commits > ev.commits)
       => ev.unchecked = 0]_vars

\* C21: a failed dump after a crank is not fatal: the block it happened in is
\* not aborted by it.
C21_DumpFailureNotFatal ==
  \A t \in Tasks :
    tk[t].err.what = "dump" /\ tk[t].actualSteps >= 1 => tk[t].pc # "Thrown"

\* C22: with --logstats and no other log flag the statistics logger is made
\* and every completed block has logged a row.
C22_LogStatsAloneLogs ==
  logStats /\ ~logging =>
    /\ storeState # "unopened" => statLogger # "none"
    /\ \A t \in Tasks : BlockReturned(t) => Len(rows) >= 1

\* C23: runBlock(N, commit) stops stepping at the first step that returns 0,
\* which raises no error, and otherwise after N steps: the count it returns
\* is <= N, and is < N only when its last step found the Engine out of work.
C23_BlockStopsAtZeroOrN ==
  \A t \in Tasks :
    /\ tk[t].pc = "Thrown" => tk[t].err.what \in {"dump", "audit"}
    /\ InBlock(t) => tk[t].cur.issued <= tk[t].cur.n
    /\ BlockReturned(t) =>
         /\ tk[t].blk.ret <= tk[t].blk.n
         /\ tk[t].blk.issued <= tk[t].blk.n
         /\ tk[t].blk.ret < tk[t].blk.n =>
              /\ tk[t].blk.issued = tk[t].blk.ret + 1
              /\ work = 0
         /\ tk[t].blk.ret = tk[t].blk.n => tk[t].blk.issued = tk[t].blk.n

C23_Witness ==
  \E t \in Tasks :
    /\ BlockReturned(t)
    /\ tk[t].blk.n = 2 /\ tk[t].blk.ret = 1 /\ tk[t].blk.issued = 2
    /\ work = 0
    /\ tk[t].pc # "Thrown"

\* C24: runBatch(0, commit) runs to completion: with a block size above 0,
\* when it returns the Engine holds no work and totalSteps is the work the
\* Engine held when the batch was entered, a multiple of the block size or not.
C24_RunAllRunsToCompletion ==
  \A t \in Tasks :
    BatchReturned(t) /\ tk[t].bat.limit = 0 /\ blockSize > 0 =>
      /\ work = 0
      /\ tk[t].bat.total = tk[t].bat.preW

C24_Witness ==
  \E t \in Tasks :
    /\ BatchReturned(t) /\ tk[t].bat.limit = 0
    /\ blockSize = 2 /\ tk[t].bat.preW = 2
    /\ tk[t].bat.total = 2 /\ tk[t].bat.blocks = 2
    /\ work = 0

\* C25: inside runBenchmark every block runs with commit enabled, and when the
\* next round is about to be queued the batch of the round before has
\* drained: its last block made fewer cranks than the block size and has
\* committed, so the Engine is empty and every crank is persisted.
C25_BenchRoundsCommitAndDrain ==
  \A t \in Tasks :
    /\ InBench(t) /\ InBlock(t) => tk[t].doCommit /\ tk[t].cur.commit
    /\ tk[t].pc \in {"rb474", "rb484"} /\ tk[t].ben.enq >= 1 /\ ~tk[t].ben.done =>
         /\ tk[t].bat.done /\ tk[t].bat.commit /\ tk[t].bat.limit = 0
         /\ tk[t].blk.done /\ tk[t].blk.commit
         /\ tk[t].blk.ret < blockSize
         /\ tk[t].blk.commits = 1
         /\ work = 0
         /\ persisted = stored

C25_Witness ==
  \E t \in Tasks :
    /\ tk[t].pc = "rb474" /\ tk[t].i = 1 /\ tk[t].rounds >= 2
    /\ tk[t].ben.enq = 1
    /\ tk[t].bat.blocks = 2 /\ tk[t].bat.total > 0
    /\ tk[t].blk.ret = 0 /\ tk[t].blk.commits = 1
    /\ persisted = stored /\ work = 0

\* C26: with dumping enabled, when a block is about to ask for its next step
\* or to commit, the crank it last made has been dumped under the in-memory
\* crank number as it is after that crank; and no dump of the process is
\* written under a crank number that is not above the one of the dump before.
C26_DumpTagsIncrease ==
  /\ ev.overwrites = 0
  /\ \A t \in Tasks :
       /\ tk[t].pc \in {"bl506", "bl525"}
       /\ doDumps /\ tk[t].actualSteps >= 1
       => /\ ev.unchecked = 0
          /\ ev.lastTag = crankNumber
          /\ ev.dumps >= tk[t].actualSteps

C26_Witness ==
  \E t \in Tasks :
    /\ tk[t].pc = "bl525" /\ doDumps
    /\ tk[t].actualSteps = 2
    /\ ev.dumps = 3 /\ ev.lastTag = 2 /\ crankNumber = 2
    /\ ev.overwrites = 0

\* C27: in the run and batch commands, with block mode on or off and with any
\* number of benchmark rounds, the store is closed only when every crank the
\* Engine has run in this process has been followed by a commit: what is
\* durable at the close is all that was written, and no step came after the
\* last commit.
C27_NoCrankUncommittedAtClose ==
  command \in {"run", "batch"} /\ storeState = "closed"
    => /\ persisted = stored
       /\ ev.closes = 1
       /\ stats > 0 => ev.commits >= 1

C27_Witness ==
  /\ command = "run" /\ ~blockMode
  /\ benchmarkRounds = 1
  /\ storeState = "closed"
  /\ stats = 3
  /\ persisted = stored
  /\ ev.commits >= 2

\* C28: when the Engine holds exactly K cranks of work at the call, K a
\* positive multiple of the block size B, runBatch(0, commit) runs K/B + 1
\* blocks; the last of them executes 0 cranks, yet commits once if commit is
\* true and appends one statistics row if there is a statistics logger.
C28_ExactMultipleRunsExtraBlock ==
  \A t \in Tasks :
    /\ BatchReturned(t) /\ tk[t].bat.limit = 0 /\ blockSize > 0
    /\ tk[t].bat.preW > 0 /\ tk[t].bat.preW % blockSize = 0
    => /\ tk[t].bat.blocks = tk[t].bat.preW \div blockSize + 1
       /\ tk[t].blk.done /\ tk[t].blk.ret = 0
       /\ tk[t].blk.commits = (IF tk[t].bat.commit THEN 1 ELSE 0)
       /\ tk[t].blk.rows = (IF statLogger # "none" THEN 1 ELSE 0)

C28_Witness ==
  \E t \in Tasks :
    /\ BatchReturned(t) /\ tk[t].bat.limit = 0 /\ tk[t].bat.commit
    /\ blockSize = 1 /\ tk[t].bat.preW = 2
    /\ tk[t].bat.blocks = 3 /\ tk[t].bat.total = 2
    /\ tk[t].blk.ret = 0 /\ tk[t].blk.commits = 1 /\ tk[t].blk.rows = 1
    /\ Len(rows) = 3 /\ rows[3].steps = 0

\* ceil(a / b) for naturals a and b > 0.
CeilDiv(a, b) == (a + b - 1) \div b

\* C29: a bounded batch, with step limit S > 0 and block size B > 0, runs at
\* most ceil(S/B) blocks, whether or not the Engine runs out of work: the
\* bound holds while the batch runs and when it has returned.
C29_BoundedBatchBlocks ==
  \A t \in Tasks :
    /\ InBatch(t) /\ tk[t].curBat.limit > 0 /\ blockSize > 0
         => tk[t].curBat.blocks <= CeilDiv(tk[t].curBat.limit, blockSize)
    /\ BatchReturned(t) /\ tk[t].bat.limit > 0 /\ blockSize > 0
         => tk[t].bat.blocks <= CeilDiv(tk[t].bat.limit, blockSize)

C29_Witness ==
  \E t \in Tasks :
    /\ BatchReturned(t) /\ tk[t].bat.limit = 1 /\ blockSize = 1
    /\ tk[t].bat.preW = 2
    /\ tk[t].bat.blocks = 1 /\ tk[t].bat.total = 1
    /\ work = 1

\* C30: no statistics row is logged after the statistics logger has been
\* closed: in every mode, the shell included, every row was given to a logger
\* that was still open.
C30_NoRowAfterLoggerClosed ==
  \A k \in 1..Len(rows) : rows[k].logger = "open"

====
